---- MODULE Spec2Model ----
(***************************************************************************)
(* Model of the pipeline runner of ReflectAi (run_pipeline.py: main and    *)
(* load_agent_function) together with the agent modules it loads           *)
(* (agents/*/*.py).  A text is a sequence of tokens; an agent's            *)
(* process_text is an operator from texts (and options) to texts.          *)
(***************************************************************************)
EXTENDS Integers, Sequences, FiniteSets, TLC

VARIABLES
    config_file,             \* pipeline_config.json: "ok", "missing" or "invalid"
    execution_order,         \* config['execution_order']
    agents_map,              \* name -> agent details, built from config['agents']
    args_verbose,            \* args.verbose
    gemini_api_key,          \* whether GEMINI_API_KEY is set in the environment
    env_model_name,          \* os.getenv("GOOGLE_GEMINI_MODEL_NAME")
    args_input_text,         \* args.input_text: <<>> for None, or <<text>>
    voice_input,             \* what voice capture yields when it is used
    initial_input_text,      \* <<>> until it is assigned
    pc,                      \* position of main(): "start", "loop", "audio", "logger", "done"
    run_state,               \* "Idle", "Running", "Finished", "Halted"
    i,                       \* 1-based position of the for loop in agents_to_run_in_loop
    agents_to_run_in_loop,   \* mutable copy of execution_order
    markdown_logger_details, \* <<agents_map["MarkdownLogger"]>>, or <<>> for None
    current_text,            \* <<>> until it is assigned
    pipeline_run_history,    \* list of {'agent_name', 'output_text'}
    inspect_bound,           \* whether main()'s local name `inspect` is bound
    resolved,                \* load_agent_function calls made: <<position, path>>
    calls,                   \* process_text calls made: position, agent, call_args, result
    audio_calls,             \* texts handed to generate_and_play_audio
    logger_calls,            \* log_run_to_markdown calls made: the call arguments
    printed,                 \* what main() printed: errors, and warnings under -v
    log_status,              \* <<>>, or <<status>> once log_run_to_markdown returned
    exit_status,             \* exit status of the process, NotExited while it runs
    bind_in,                 \* inputs of one parameter binding (SpecBind)
    bind_out                 \* <<>>, or <<result>> of that binding

vars == <<config_file, execution_order, agents_map, args_verbose,
          gemini_api_key, env_model_name, args_input_text, voice_input,
          initial_input_text, pc, run_state, i,
          agents_to_run_in_loop, markdown_logger_details, current_text,
          pipeline_run_history, inspect_bound, resolved, calls, audio_calls,
          logger_calls, printed, log_status, exit_status, bind_in, bind_out>>

\* what main() reads and never assigns
input_vars == <<config_file, execution_order, agents_map, args_verbose,
                gemini_api_key, env_model_name, args_input_text, voice_input,
                bind_in, bind_out>>

config_vars == <<input_vars, initial_input_text>>

(***************************************************************************)
(* Bounds                                                                  *)
(***************************************************************************)
MaxOrder == 3

(***************************************************************************)
(* Values                                                                  *)
(***************************************************************************)
None == "None"

\* exit_status while the process runs
NotExited == -1

\* exit status of a process whose main() returns
ExitOnReturn == 0

LoggerName == "MarkdownLogger"

AgentNames == {"ConceptReframer", "HumorAgent", "MarkdownLogger"}

\* Files an agent 'path' may name.  "missing.py" is not on disk; "app.py" is
\* on disk but defines neither process_text nor log_run_to_markdown;
\* "README.md" is on disk but no loader exists for its suffix.
OwnPath(name) ==
    CASE name = "ConceptReframer" -> "agents/ConceptReframer/ConceptReframer.py"
      [] name = "HumorAgent"      -> "agents/HumorAgent/HumorAgent.py"
      [] name = "MarkdownLogger"  -> "agents/MarkdownLogger/MarkdownLogger.py"

PathChoices(name) == {None, OwnPath(name), "missing.py", "app.py", "README.md"}

InputTexts == {<<"hello">>}

(***************************************************************************)
(* The agent files on disk                                                 *)
(***************************************************************************)
\* os.path.exists(agent_path)
PathExists(path) == path # "missing.py"

\* importlib.util.spec_from_file_location returns None
SpecIsNone(path) == path = "README.md"

\* Module-level code that raises while the file is executed: HumorAgent.py
\* and app.py raise ValueError when GEMINI_API_KEY is not set.
ExecRaises(path, key) ==
    /\ path \in {"agents/HumorAgent/HumorAgent.py", "app.py"}
    /\ ~key

HasProcessText(path) ==
    path \in {"agents/ConceptReframer/ConceptReframer.py",
              "agents/HumorAgent/HumorAgent.py",
              "agents/MarkdownLogger/MarkdownLogger.py"}

HasLogRunToMarkdown(path) == path = "agents/MarkdownLogger/MarkdownLogger.py"

\* inspect.signature(process_text): the declared parameter names, in order,
\* and the name of the **kwargs parameter among them (None when there is none).
Signature(path) ==
    IF path = "agents/HumorAgent/HumorAgent.py"
    THEN [parameters |-> <<"text", "model_name", "verbosity_level">>,
          var_keyword |-> None]
    ELSE [parameters |-> <<"text">>, var_keyword |-> None]

\* load_agent_function that does not execute the module
load_agent_function_lazy(agent_path, key) ==
    IF ~PathExists(agent_path) THEN "FileNotFoundError"
    ELSE IF SpecIsNone(agent_path) THEN "ImportError"
    ELSE IF ~HasProcessText(agent_path) THEN "AttributeError"
    ELSE "ok"

\* load_agent_function: "ok" when it returns process_text, otherwise the
\* class of the exception it raises.
load_agent_function(agent_path, key) ==
    IF ~PathExists(agent_path) THEN "FileNotFoundError"
    ELSE IF SpecIsNone(agent_path) THEN "ImportError"
    ELSE IF ExecRaises(agent_path, key) THEN "ValueError"
    ELSE IF ~HasProcessText(agent_path) THEN "AttributeError"
    ELSE "ok"

(***************************************************************************)
(* process_text of each agent: the set of texts a call may return          *)
(***************************************************************************)
Lenses == {"Marxist", "Stoic", "Systems Thinking", "Nietzschean"}

ConceptReframer_process_text(text) ==
    { <<"Reframing through a lens:", lens>> \o text
          \o <<"This offers a new viewpoint.">> : lens \in Lenses }

DefaultModel == "gemini-1.5-flash-latest"

\* What happens to the Gemini model of one call: genai.GenerativeModel(...)
\* raises, or model.generate_content(...) raises, or the service replies.
GeminiOutcomes == {"init_fails", "generate_fails", "replies"}

\* HumorAgent.process_text for one outcome: both failures are caught and
\* returned as the input text followed by an error marker.
HumorAgent_returns(text, model_name, outcome) ==
    CASE outcome = "init_fails" ->
             text \o <<"(Error: Could not initialize model", model_name, ")">>
      [] outcome = "generate_fails" ->
             text \o <<"(Error: Could not connect to Gemini", model_name, ")">>
      [] outcome = "replies" -> <<"funny text">>

\* the texts a call of HumorAgent.process_text may return
HumorAgent_process_text(text, model_name) ==
    { HumorAgent_returns(text, model_name, outcome) :
          outcome \in GeminiOutcomes }

\* TextSimplifierAgent.process_text for one outcome
TextSimplifierAgent_returns(text, model_name, outcome) ==
    CASE outcome = "init_fails" ->
             text \o <<"(Error: Could not initialize TextSimplifierAgent model",
                       model_name, ")">>
      [] outcome = "generate_fails" ->
             text \o <<"(Error: Could not connect to Gemini", model_name,
                       "for text simplification)">>
      [] outcome = "replies" -> <<"simplified text">>

\* ImageryEnhancer_returns that falls back to a message without the text
ImageryEnhancer_returns_message(text, outcome) ==
    IF outcome = "generate_fails"
    THEN <<"(Error: Could not connect to Gemini for enhancement", ")">>
    ELSE <<"enhanced text">>

\* ImageryEnhancer.process_text for one outcome of the generate call; the
\* model is created when the module is executed, not in process_text
ImageryEnhancer_returns(text, outcome) ==
    IF outcome = "generate_fails"
    THEN text \o <<"(Error: Could not connect to Gemini for enhancement", ")">>
    ELSE <<"enhanced text">>

GeminiAgents == {"HumorAgent", "TextSimplifierAgent", "ImageryEnhancer"}

\* Module-level code of a Gemini agent raises while the file is executed:
\* all three raise ValueError without GEMINI_API_KEY, and ImageryEnhancer
\* creates its model there, outside any try block.
GeminiExecRaises(agent, key, outcome) ==
    \/ ~key
    \/ agent = "ImageryEnhancer" /\ outcome = "init_fails"

\* process_text(text) of a loaded Gemini agent, with its default model
GeminiAgent_returns(agent, text, outcome) ==
    CASE agent = "HumorAgent" -> HumorAgent_returns(text, DefaultModel, outcome)
      [] agent = "TextSimplifierAgent" ->
             TextSimplifierAgent_returns(text, DefaultModel, outcome)
      [] agent = "ImageryEnhancer" -> ImageryEnhancer_returns(text, outcome)

\* a placeholder that hands its input back
MarkdownLogger_process_text_echo(text) == { text }

MarkdownLogger_process_text(text) == { <<"MarkdownLogger executed.">> }

ArgOr(call_args, name, default) ==
    IF name \in DOMAIN call_args THEN call_args[name] ELSE default

\* process_text_func(**call_args)
process_text_func(path, call_args) ==
    CASE path = "agents/ConceptReframer/ConceptReframer.py" ->
             ConceptReframer_process_text(call_args["text"])
      [] path = "agents/HumorAgent/HumorAgent.py" ->
             HumorAgent_process_text(call_args["text"],
                                     ArgOr(call_args, "model_name", DefaultModel))
      [] path = "agents/MarkdownLogger/MarkdownLogger.py" ->
             MarkdownLogger_process_text(call_args["text"])

(***************************************************************************)
(* Configuration resolution and parameter binding (main, inside the loop)  *)
(***************************************************************************)
\* str.strip() and str.lower() on the strings the model uses
Strip(s) == IF s \in {"", " "} THEN "" ELSE s

Lower(s) == IF s = "N/A" THEN "n/a" ELSE s

\* Python truthiness of an optional string
Truthy(s) == s # None /\ s # ""

\* ModelToUse with the environment default taking precedence
ModelToUse_envFirst(config_model_name, env_name) ==
    IF Truthy(env_name) /\ Strip(env_name) # ""
    THEN env_name
    ELSE IF /\ Truthy(config_model_name)
            /\ Strip(config_model_name) # ""
            /\ Lower(config_model_name) # "n/a"
         THEN config_model_name
         ELSE None

\* model_to_use_for_agent
ModelToUse(config_model_name, env_name) ==
    IF /\ Truthy(config_model_name)
       /\ Strip(config_model_name) # ""
       /\ Lower(config_model_name) # "n/a"
    THEN config_model_name
    ELSE IF Truthy(env_name) /\ Strip(env_name) # ""
         THEN env_name
         ELSE None

ReservedParams == {"text", "model_name", "verbosity_level"}

\* AcceptedParams whose branch for the declared names also takes the
\* reserved names
AcceptedParams_named(sig, configured_params) ==
    LET declared == {sig.parameters[k] : k \in DOMAIN sig.parameters}
        named == {p \in declared : p \in DOMAIN configured_params}
        extra == IF sig.var_keyword # None /\ sig.var_keyword \notin named
                 THEN {k \in DOMAIN configured_params :
                          k \notin declared /\ k \notin ReservedParams}
                 ELSE {}
    IN  [k \in named \cup extra |-> configured_params[k]]

\* AcceptedParams whose **kwargs branch also forwards the reserved names
AcceptedParams_reserved(sig, configured_params) ==
    LET declared == {sig.parameters[k] : k \in DOMAIN sig.parameters}
        named == {p \in declared :
                     p \notin ReservedParams /\ p \in DOMAIN configured_params}
        extra == IF sig.var_keyword # None /\ sig.var_keyword \notin named
                 THEN {k \in DOMAIN configured_params : k \notin declared}
                 ELSE {}
    IN  [k \in named \cup extra |-> configured_params[k]]

\* accepted_params_by_agent_func
AcceptedParams(sig, configured_params) ==
    LET declared == {sig.parameters[k] : k \in DOMAIN sig.parameters}
        named == {p \in declared :
                     p \notin ReservedParams /\ p \in DOMAIN configured_params}
        extra == IF sig.var_keyword # None /\ sig.var_keyword \notin named
                 THEN {k \in DOMAIN configured_params :
                          k \notin declared /\ k \notin ReservedParams}
                 ELSE {}
    IN  [k \in named \cup extra |-> configured_params[k]]

\* agent_verbosity_level
AgentVerbosityLevel(verbose) == IF verbose THEN 2 ELSE 0

\* CallArgs with the text taken from the initial input, not from the
\* text the previous stage returned
CallArgs_initial(sig, agent_details, text, env_name, verbose) ==
    LET declared == {sig.parameters[k] : k \in DOMAIN sig.parameters}
        model == ModelToUse(agent_details.gpt_version, env_name)
        a1 == [k \in {"text"} |-> initial_input_text]
        a2 == IF "model_name" \in declared /\ Truthy(model)
              THEN [k \in {"model_name"} |-> model] @@ a1
              ELSE a1
        a3 == IF "verbosity_level" \in declared
              THEN [k \in {"verbosity_level"} |-> AgentVerbosityLevel(verbose)] @@ a2
              ELSE a2
    IN  AcceptedParams(sig, agent_details.params) @@ a3

\* call_args as handed to process_text_func
CallArgs(sig, agent_details, text, env_name, verbose) ==
    LET declared == {sig.parameters[k] : k \in DOMAIN sig.parameters}
        model == ModelToUse(agent_details.gpt_version, env_name)
        a1 == [k \in {"text"} |-> text]
        a2 == IF "model_name" \in declared /\ Truthy(model)
              THEN [k \in {"model_name"} |-> model] @@ a1
              ELSE a1
        a3 == IF "verbosity_level" \in declared
              THEN [k \in {"verbosity_level"} |-> AgentVerbosityLevel(verbose)] @@ a2
              ELSE a2
    IN  AcceptedParams(sig, agent_details.params) @@ a3

(***************************************************************************)
(* Configurations                                                          *)
(***************************************************************************)
GptVersionChoices == {None}

ParamChoices == {<<>>}

AgentDetails(name) ==
    [path : PathChoices(name), gpt_version : GptVersionChoices,
     params : ParamChoices]

\* the maps {agent['name']: agent for agent in config['agents']}
AgentMaps ==
    UNION { { m \in [S -> UNION {AgentDetails(n) : n \in S}] :
                 \A n \in S : m[n] \in AgentDetails(n) } :
            S \in SUBSET AgentNames }

OrderNames == AgentNames

ExecutionOrders == UNION { [1..n -> OrderNames] : n \in 0..MaxOrder }

ConfigFiles == {"ok", "missing", "invalid"}

Init ==
    /\ config_file \in ConfigFiles
    /\ execution_order \in ExecutionOrders
    /\ agents_map \in AgentMaps
    /\ args_verbose \in BOOLEAN
    /\ gemini_api_key \in BOOLEAN
    /\ env_model_name \in {None}
    /\ args_input_text \in {<<text>> : text \in InputTexts}
    /\ voice_input = "unavailable"
    /\ initial_input_text = <<>>
    /\ pc = "start"
    /\ run_state = "Idle"
    /\ i = 0
    /\ agents_to_run_in_loop = <<>>
    /\ markdown_logger_details = <<>>
    /\ current_text = <<>>
    /\ pipeline_run_history = <<>>
    /\ inspect_bound = FALSE
    /\ resolved = <<>>
    /\ calls = <<>>
    /\ audio_calls = <<>>
    /\ logger_calls = <<>>
    /\ printed = <<>>
    /\ log_status = <<>>
    /\ exit_status = NotExited
    /\ bind_in = <<>>
    /\ bind_out = <<>>

(***************************************************************************)
(* main()                                                                  *)
(***************************************************************************)
Last(s) == s[Len(s)]

Front(s) == SubSeq(s, 1, Len(s) - 1)

InOrder(name, order) == \E k \in 1..Len(order) : order[k] = name

\* print(...) of a report
Report(msg) == Append(printed, msg)

\* Warn that prints nothing
Warn_silent(msg) == printed

\* print(...) of a warning, which is guarded by args.verbose
Warn(msg) == IF args_verbose THEN Append(printed, msg) ELSE printed

\* LoggerIsTerminal without the test that the logger is the last entry
LoggerIsTerminal_anywhere(amap, order) ==
    /\ LoggerName \in DOMAIN amap
    /\ InOrder(LoggerName, order)

\* whether the trailing logger entry is taken out of the loop
LoggerIsTerminal(amap, order) ==
    /\ LoggerName \in DOMAIN amap
    /\ InOrder(LoggerName, order)
    /\ Last(order) = LoggerName

\* MainStages that always takes the last entry out of the loop
MainStages_pop(amap, order) == Front(order)

\* MainStages that leaves the trailing logger in the loop
MainStages_keep(amap, order) == order

\* agents_to_run_in_loop after the partition
MainStages(amap, order) ==
    IF LoggerIsTerminal(amap, order) THEN Front(order) ELSE order

\* what voice capture yields: the libraries are not available, or
\* record_audio returns None, or the transcription is None or empty, or a
\* text is transcribed
VoiceOutcomes == {"unavailable", "no_recording", "no_transcript",
                  "transcribed"}

TranscribedText == <<"hello">>

\* the input text main() obtains from the argument or from voice capture:
\* <<text>>, or <<>> when main() returns for want of one
ObtainedInput(args_text, voice) ==
    IF args_text # <<>> THEN args_text
    ELSE IF voice = "transcribed" THEN <<TranscribedText>>
    ELSE <<>>

\* InputMissing that accepts any input
InputMissing_never(obtained) == FALSE

\* no input text was obtained, or `not initial_input_text`
InputMissing(obtained) ==
    IF obtained = <<>> THEN TRUE ELSE obtained[1] = <<>>

\* the message of the early return taken before the run starts
StartReport(file, order, amap, args_text, voice) ==
    IF file = "missing" THEN "Error: pipeline_config.json not found."
    ELSE IF file = "invalid" THEN "Error: Could not decode pipeline_config.json."
    ELSE IF order = <<>> THEN "No execution order defined"
    ELSE IF DOMAIN amap = {} THEN "No agents defined"
    ELSE IF args_text # <<>> THEN "No input text available"
    ELSE IF voice = "unavailable"
         THEN "Voice input libraries not available and no text input provided"
    ELSE IF voice = "no_recording" THEN "Could not record audio. Exiting."
    ELSE "Could not transcribe audio. Exiting."

\* EarlyReturn without the test of the configuration file
EarlyReturn_anyFile(file, order, amap) ==
    order = <<>> \/ DOMAIN amap = {}

\* whether main() returns before it reads its arguments
EarlyReturn(file, order, amap) ==
    file # "ok" \/ order = <<>> \/ DOMAIN amap = {}

\* main() up to the for loop: the early returns, the input text from the
\* argument or from voice capture, then the partition of execution_order
\* into the loop's entries and the trailing logger.
Start ==
    /\ pc = "start"
    /\ LET obtained == ObtainedInput(args_input_text, voice_input) IN
       IF \/ EarlyReturn(config_file, execution_order, agents_map)
          \/ InputMissing(obtained)
       THEN /\ pc' = "done"
            /\ exit_status' = ExitOnReturn
            /\ printed' = Report(StartReport(config_file, execution_order,
                                             agents_map, args_input_text,
                                             voice_input))
            /\ initial_input_text' =
                   IF EarlyReturn(config_file, execution_order, agents_map)
                      \/ obtained = <<>>
                   THEN initial_input_text ELSE obtained[1]
            /\ UNCHANGED <<run_state, i, agents_to_run_in_loop,
                           markdown_logger_details, current_text>>
       ELSE /\ pc' = "loop"
            /\ UNCHANGED exit_status
            /\ run_state' = "Running"
            /\ i' = 1
            /\ initial_input_text' = IF obtained = <<>> THEN <<>>
                                     ELSE obtained[1]
            /\ current_text' = initial_input_text'
            /\ agents_to_run_in_loop' = MainStages(agents_map, execution_order)
            /\ markdown_logger_details' =
                   IF LoggerIsTerminal(agents_map, execution_order)
                   THEN <<agents_map[LoggerName]>> ELSE <<>>
            /\ printed' =
                   IF /\ LoggerName \in DOMAIN agents_map
                      /\ InOrder(LoggerName, execution_order)
                      /\ Last(execution_order) # LoggerName
                   THEN Warn("Warning: MarkdownLogger is not the last agent")
                   ELSE printed
    /\ UNCHANGED <<pipeline_run_history, inspect_bound, resolved, calls,
                   audio_calls, logger_calls, log_status>>
    /\ UNCHANGED input_vars

AtStage == pc = "loop" /\ i <= Len(agents_to_run_in_loop)

agent_name == agents_to_run_in_loop[i]

\* Skipped without the test of the agent's path
Skipped_absent(amap, name) == name \notin DOMAIN amap

\* the two `continue` branches of the loop
Skipped(amap, name) ==
    IF name \notin DOMAIN amap THEN TRUE ELSE ~Truthy(amap[name].path)

\* One loop iteration that skips its entry.
SkipStage ==
    /\ AtStage
    /\ Skipped(agents_map, agent_name)
    /\ i' = i + 1
    /\ printed' = Warn(IF agent_name \notin DOMAIN agents_map
                       THEN "Warning: agent not found. Skipping."
                       ELSE "Warning: path not defined. Skipping.")
    /\ UNCHANGED <<pc, run_state, agents_to_run_in_loop,
                   markdown_logger_details, current_text,
                   pipeline_run_history, inspect_bound, resolved, calls,
                   audio_calls, logger_calls>>
    /\ UNCHANGED <<log_status, exit_status>>
    /\ UNCHANGED config_vars

\* HaltReport with ImportError handled by the FileNotFoundError clause
HaltReport_import(exc) ==
    CASE exc \in {"FileNotFoundError", "ImportError"} -> "Error loading agent"
      [] exc = "AttributeError" -> "Error with agent module"
      [] OTHER -> "An unexpected error occurred while running agent"

\* the except clause that handles an exception class of the try block
HaltReport(exc) ==
    CASE exc = "FileNotFoundError" -> "Error loading agent"
      [] exc \in {"ImportError", "AttributeError"} -> "Error with agent module"
      [] OTHER -> "An unexpected error occurred while running agent"

\* the entry appended to pipeline_run_history
StepRecord(name, text) == [agent_name |-> name, output_text |-> text]

ErrorMarkers == {"(Error: Could not initialize model",
                 "(Error: Could not connect to Gemini"}

\* CurrentTextAfter that falls back to the text before the stage when the
\* stage's result carries an error marker
CurrentTextAfter_fallback(text_before_agent_processing, processed_text) ==
    IF \E k \in 1..Len(processed_text) : processed_text[k] \in ErrorMarkers
    THEN text_before_agent_processing
    ELSE processed_text

\* current_text after a successful call
CurrentTextAfter(text_before_agent_processing, processed_text) ==
    processed_text

\* HistoryAfter that puts the new record first
HistoryAfter_front(history, record) == <<record>> \o history

\* pipeline_run_history.append(...)
HistoryAfter(history, record) == Append(history, record)

\* One loop iteration whose try block completes: the callable is resolved,
\* the arguments are bound, process_text is called and its result recorded.
RunStage ==
    /\ AtStage
    /\ ~Skipped(agents_map, agent_name)
    /\ LET agent_details == agents_map[agent_name]
           agent_path == agent_details.path
           call_args == CallArgs(Signature(agent_path), agent_details,
                                 current_text, env_model_name, args_verbose)
       IN  /\ load_agent_function(agent_path, gemini_api_key) = "ok"
           /\ resolved' = Append(resolved, <<i, agent_path>>)
           /\ inspect_bound' = TRUE
           /\ \E processed_text \in process_text_func(agent_path, call_args) :
                 /\ calls' = Append(calls, [pos |-> i, agent |-> agent_name,
                                            call_args |-> call_args,
                                            returned |-> processed_text])
                 /\ current_text' = CurrentTextAfter(current_text, processed_text)
                 /\ pipeline_run_history' =
                        HistoryAfter(pipeline_run_history,
                                     StepRecord(agent_name, current_text'))
    /\ i' = i + 1
    /\ UNCHANGED <<pc, run_state, agents_to_run_in_loop,
                   markdown_logger_details, audio_calls, logger_calls, printed>>
    /\ UNCHANGED <<log_status, exit_status>>
    /\ UNCHANGED config_vars

\* HaltStage that also records the failed stage with the unchanged text
HaltStage_records ==
    /\ AtStage
    /\ ~Skipped(agents_map, agent_name)
    /\ LET agent_path == agents_map[agent_name].path
           exc == load_agent_function(agent_path, gemini_api_key)
       IN  /\ exc # "ok"
           /\ resolved' = Append(resolved, <<i, agent_path>>)
           /\ printed' = Append(Report(HaltReport(exc)),
                                "Pipeline execution halted.")
    /\ pc' = "done"
    /\ run_state' = "Halted"
    /\ pipeline_run_history' =
           Append(pipeline_run_history, StepRecord(agent_name, current_text))
    /\ UNCHANGED <<i, agents_to_run_in_loop, markdown_logger_details,
                   current_text, inspect_bound, calls,
                   audio_calls, logger_calls>>
    /\ exit_status' = ExitOnReturn
    /\ UNCHANGED log_status
    /\ UNCHANGED config_vars

\* HaltStage that reports the error and goes on with the next entry
HaltStage_continues ==
    /\ AtStage
    /\ ~Skipped(agents_map, agent_name)
    /\ LET agent_path == agents_map[agent_name].path
           exc == load_agent_function(agent_path, gemini_api_key)
       IN  /\ exc # "ok"
           /\ resolved' = Append(resolved, <<i, agent_path>>)
           /\ printed' = Append(Report(HaltReport(exc)),
                                "Pipeline execution halted.")
    /\ i' = i + 1
    /\ UNCHANGED <<pc, run_state, agents_to_run_in_loop,
                   markdown_logger_details, current_text,
                   pipeline_run_history, inspect_bound, calls,
                   audio_calls, logger_calls>>
    /\ UNCHANGED <<log_status, exit_status>>
    /\ UNCHANGED config_vars

\* HaltStage that leaves the loop instead of returning from main()
HaltStage_breaks ==
    /\ AtStage
    /\ ~Skipped(agents_map, agent_name)
    /\ LET agent_path == agents_map[agent_name].path
           exc == load_agent_function(agent_path, gemini_api_key)
       IN  /\ exc # "ok"
           /\ resolved' = Append(resolved, <<i, agent_path>>)
           /\ printed' = Append(Report(HaltReport(exc)),
                                "Pipeline execution halted.")
    /\ pc' = "logger"
    /\ run_state' = "Halted"
    /\ UNCHANGED <<i, agents_to_run_in_loop, markdown_logger_details,
                   current_text, pipeline_run_history, inspect_bound, calls,
                   audio_calls, logger_calls>>
    /\ UNCHANGED <<log_status, exit_status>>
    /\ UNCHANGED config_vars

\* HaltStage that leaves the loop and falls through to the audio block
HaltStage_falls ==
    /\ AtStage
    /\ ~Skipped(agents_map, agent_name)
    /\ LET agent_path == agents_map[agent_name].path
           exc == load_agent_function(agent_path, gemini_api_key)
       IN  /\ exc # "ok"
           /\ resolved' = Append(resolved, <<i, agent_path>>)
           /\ printed' = Append(Report(HaltReport(exc)),
                                "Pipeline execution halted.")
    /\ pc' = "audio"
    /\ run_state' = "Halted"
    /\ UNCHANGED <<i, agents_to_run_in_loop, markdown_logger_details,
                   current_text, pipeline_run_history, inspect_bound, calls,
                   audio_calls, logger_calls>>
    /\ UNCHANGED <<log_status, exit_status>>
    /\ UNCHANGED config_vars

\* One loop iteration whose try block raises: the error is printed and
\* main() returns.
HaltStage ==
    /\ AtStage
    /\ ~Skipped(agents_map, agent_name)
    /\ LET agent_path == agents_map[agent_name].path
           exc == load_agent_function(agent_path, gemini_api_key)
       IN  /\ exc # "ok"
           /\ resolved' = Append(resolved, <<i, agent_path>>)
           /\ printed' = Append(Report(HaltReport(exc)),
                                "Pipeline execution halted.")
    /\ pc' = "done"
    /\ run_state' = "Halted"
    /\ UNCHANGED <<i, agents_to_run_in_loop, markdown_logger_details,
                   current_text, pipeline_run_history, inspect_bound, calls,
                   audio_calls, logger_calls>>
    /\ exit_status' = ExitOnReturn
    /\ UNCHANGED log_status
    /\ UNCHANGED config_vars

\* The loop is exhausted: "Pipeline Finished".
FinishLoop ==
    /\ pc = "loop"
    /\ i > Len(agents_to_run_in_loop)
    /\ pc' = "audio"
    /\ run_state' = "Finished"
    /\ UNCHANGED <<i, agents_to_run_in_loop, markdown_logger_details,
                   current_text, pipeline_run_history, inspect_bound,
                   resolved, calls, audio_calls, logger_calls, printed>>
    /\ UNCHANGED <<log_status, exit_status>>
    /\ UNCHANGED config_vars

\* final_text_before_logging taken from the initial input
final_text_before_logging_input(text) == initial_input_text

\* final_text_before_logging, assigned from current_text after the loop
final_text_before_logging(text) == text

\* generate_and_play_audio plays the audio, or catches the exception of the
\* ElevenLabs client and prints it
AudioOutcomes == {"played", "failed"}

\* Audio generation for the final text when -a is given, the ElevenLabs
\* library is installed and ELEVENLABS_API_KEY is set.
AudioStep ==
    /\ pc = "audio"
    /\ \E args_audio \in BOOLEAN, ELEVENLABS_AVAILABLE \in BOOLEAN,
          elevenlabs_api_key \in BOOLEAN, outcome \in AudioOutcomes :
          IF args_audio /\ ELEVENLABS_AVAILABLE
          THEN IF elevenlabs_api_key
               THEN /\ audio_calls' =
                          Append(audio_calls,
                                 final_text_before_logging(current_text))
                    /\ printed' =
                          IF outcome = "failed"
                          THEN Report("[Audio] Error during ElevenLabs operation")
                          ELSE printed
               ELSE /\ printed' = Report("Error: ELEVENLABS_API_KEY not found")
                    /\ UNCHANGED audio_calls
          ELSE UNCHANGED <<audio_calls, printed>>
    /\ pc' = "logger"
    /\ UNCHANGED <<run_state, i, agents_to_run_in_loop,
                   markdown_logger_details, current_text,
                   pipeline_run_history, inspect_bound, resolved, calls,
                   logger_calls>>
    /\ UNCHANGED <<log_status, exit_status>>
    /\ UNCHANGED config_vars

\* log_run_to_markdown returns a status, or raises when the log directory
\* cannot be created
LogOutcomes == {"Log successfully saved", "Error saving log file", "raises"}

\* LogCallArgs for a logger that is passed the verbosity level
LogCallArgs_verbosity(initial_input, history) ==
    [initial_input |-> initial_input,
     pipeline_steps |-> history,
     original_filename_base |-> initial_input,
     verbosity_level |-> AgentVerbosityLevel(args_verbose)]

\* log_call_args; log_run_to_markdown declares no verbosity_level
LogCallArgs(initial_input, history) ==
    [initial_input |-> initial_input,
     pipeline_steps |-> history,
     original_filename_base |-> initial_input]

\* LoggerReport that prints only under --verbose
LoggerReport_verbose(msg) == Warn(msg)

\* the report of a logger failure, printed whatever the verbosity
LoggerReport(msg) == Report(msg)

\* The trailing logger: its module is executed and log_run_to_markdown is
\* called with the initial input and the run history; every exception is
\* caught and reported.
LoggerStep ==
    /\ pc = "logger"
    /\ pc' = "done"
    /\ IF markdown_logger_details = <<>>
       THEN UNCHANGED <<logger_calls, printed, log_status>>
       ELSE LET logger_path == markdown_logger_details[1].path IN
            IF ~Truthy(logger_path)
            THEN /\ printed' = Warn("Warning: MarkdownLogger path not defined")
                 /\ UNCHANGED <<logger_calls, log_status>>
            ELSE IF \/ SpecIsNone(logger_path)
                    \/ ~PathExists(logger_path)
                    \/ ExecRaises(logger_path, gemini_api_key)
            THEN /\ printed' = LoggerReport("Error running MarkdownLogger")
                 /\ UNCHANGED <<logger_calls, log_status>>
            ELSE IF ~HasLogRunToMarkdown(logger_path)
            THEN /\ printed' =
                        LoggerReport("Error: no log_run_to_markdown function")
                 /\ UNCHANGED <<logger_calls, log_status>>
            ELSE IF ~inspect_bound
            THEN \* inspect.signature: the local name is not bound
                 /\ printed' = LoggerReport("Error running MarkdownLogger")
                 /\ UNCHANGED <<logger_calls, log_status>>
            ELSE \E outcome \in LogOutcomes :
                 /\ logger_calls' =
                        Append(logger_calls,
                               LogCallArgs(initial_input_text,
                                           pipeline_run_history))
                 /\ log_status' = IF outcome = "raises" THEN <<>>
                                  ELSE <<outcome>>
                 /\ printed' =
                        IF outcome = "raises"
                        THEN LoggerReport("Error running MarkdownLogger")
                        ELSE Warn(outcome)
    /\ UNCHANGED <<run_state, i, agents_to_run_in_loop,
                   markdown_logger_details, current_text,
                   pipeline_run_history, inspect_bound, resolved, calls,
                   audio_calls>>
    /\ exit_status' = ExitOnReturn
    /\ UNCHANGED config_vars

Next ==
    \/ Start
    \/ SkipStage
    \/ RunStage
    \/ HaltStage
    \/ FinishLoop
    \/ AudioStep
    \/ LoggerStep

Spec == Init /\ [][Next]_vars

(***************************************************************************)
(* main() for every way of giving it its input text: as an argument, empty *)
(* or not, or by voice capture; the agents are the repository's own files  *)
(***************************************************************************)
ArgsInputTexts == {<<>>, <<<<>>>>, <<<<"hello">>>>}

OwnAgentMaps ==
    { m \in AgentMaps : \A n \in DOMAIN m : m[n].path = OwnPath(n) }

InitInput ==
    /\ config_file = "ok"
    /\ execution_order \in ExecutionOrders
    /\ agents_map \in OwnAgentMaps
    /\ args_verbose \in BOOLEAN
    /\ gemini_api_key \in BOOLEAN
    /\ env_model_name = None
    /\ args_input_text \in ArgsInputTexts
    /\ voice_input \in IF args_input_text = <<>> THEN VoiceOutcomes
                       ELSE {"unavailable"}
    /\ initial_input_text = <<>>
    /\ pc = "start"
    /\ run_state = "Idle"
    /\ i = 0
    /\ agents_to_run_in_loop = <<>>
    /\ markdown_logger_details = <<>>
    /\ current_text = <<>>
    /\ pipeline_run_history = <<>>
    /\ inspect_bound = FALSE
    /\ resolved = <<>>
    /\ calls = <<>>
    /\ audio_calls = <<>>
    /\ logger_calls = <<>>
    /\ printed = <<>>
    /\ log_status = <<>>
    /\ exit_status = NotExited
    /\ bind_in = <<>>
    /\ bind_out = <<>>

SpecInput == InitInput /\ [][Next]_vars

(***************************************************************************)
(* Parameter binding on its own: one resolution of the model and one       *)
(* binding of call_args, for any signature and any configured values       *)
(***************************************************************************)
BindSignatures ==
    { [parameters |-> <<"text">>, var_keyword |-> None],
      [parameters |-> <<"text", "model_name", "verbosity_level">>,
       var_keyword |-> None],
      [parameters |-> <<"text", "verbosity_level">>, var_keyword |-> None],
      [parameters |-> <<"text", "tone">>, var_keyword |-> None],
      [parameters |-> <<"text", "kwargs">>, var_keyword |-> "kwargs"],
      [parameters |-> <<"text", "model_name", "tone", "kwargs">>,
       var_keyword |-> "kwargs"] }

BindParamNames == {"tone", "style", "text", "model_name", "verbosity_level",
                   "kwargs"}

\* the value configured for a parameter name: a model name for model_name,
\* a number for verbosity_level, a text for every other name
ParamValue(k) ==
    CASE k = "model_name" -> "configured-model"
      [] k = "verbosity_level" -> 1
      [] OTHER -> <<"configured", k>>

BindParams == { [k \in S |-> ParamValue(k)] : S \in SUBSET BindParamNames }

BindGptVersions == {None, "", " ", "n/a", "N/A", "gemini-1.5-pro-latest"}

BindEnvModels == {None, "", " ", "gemini-env"}

InitBind ==
    /\ bind_in \in [sig : BindSignatures, gpt_version : BindGptVersions,
                    params : BindParams, env_model_name : BindEnvModels,
                    verbose : BOOLEAN, text : InputTexts]
    /\ bind_out = <<>>
    /\ pc = "bind"
    /\ config_file = "ok"
    /\ execution_order = <<>>
    /\ agents_map = <<>>
    /\ args_verbose = bind_in.verbose
    /\ gemini_api_key = TRUE
    /\ env_model_name = bind_in.env_model_name
    /\ args_input_text = <<bind_in.text>>
    /\ voice_input = "unavailable"
    /\ initial_input_text = bind_in.text
    /\ run_state = "Running"
    /\ i = 1
    /\ agents_to_run_in_loop = <<>>
    /\ markdown_logger_details = <<>>
    /\ current_text = bind_in.text
    /\ pipeline_run_history = <<>>
    /\ inspect_bound = FALSE
    /\ resolved = <<>>
    /\ calls = <<>>
    /\ audio_calls = <<>>
    /\ logger_calls = <<>>
    /\ printed = <<>>
    /\ log_status = <<>>
    /\ exit_status = NotExited

\* The model is resolved and call_args is bound for bind_in.
Bind ==
    /\ pc = "bind"
    /\ pc' = "bound"
    /\ bind_out' =
          <<[model |-> ModelToUse(bind_in.gpt_version, env_model_name),
             call_args |->
                CallArgs(bind_in.sig,
                         [path |-> None, gpt_version |-> bind_in.gpt_version,
                          params |-> bind_in.params],
                         current_text, env_model_name, args_verbose)]>>
    /\ UNCHANGED <<config_file, execution_order, agents_map, args_verbose,
                   gemini_api_key, env_model_name, args_input_text,
                   voice_input, initial_input_text,
                   run_state, i, agents_to_run_in_loop,
                   markdown_logger_details, current_text,
                   pipeline_run_history, inspect_bound, resolved, calls,
                   audio_calls, logger_calls, printed, log_status,
                   exit_status, bind_in>>

NextBind == Bind

SpecBind == InitBind /\ [][NextBind]_vars

(***************************************************************************)
(* The Gemini agents on their own: a chain of stages, each one loading a   *)
(* Gemini agent and calling its process_text on the current text, for any  *)
(* outcome of the model                                                    *)
(***************************************************************************)
MaxStages == 3

DegradeTexts == {<<>>, <<"hello">>, <<"hello", "world">>}

InitDegrade ==
    /\ initial_input_text \in DegradeTexts
    /\ args_input_text = <<initial_input_text>>
    /\ voice_input = "unavailable"
    /\ current_text = initial_input_text
    /\ gemini_api_key \in BOOLEAN
    /\ pc = "degrade"
    /\ run_state = "Running"
    /\ i = 1
    /\ calls = <<>>
    /\ config_file = "ok"
    /\ execution_order = <<>>
    /\ agents_map = <<>>
    /\ args_verbose = FALSE
    /\ env_model_name = None
    /\ agents_to_run_in_loop = <<>>
    /\ markdown_logger_details = <<>>
    /\ pipeline_run_history = <<>>
    /\ inspect_bound = FALSE
    /\ resolved = <<>>
    /\ audio_calls = <<>>
    /\ logger_calls = <<>>
    /\ printed = <<>>
    /\ log_status = <<>>
    /\ exit_status = NotExited
    /\ bind_in = <<>>
    /\ bind_out = <<>>

degrade_vars == <<config_file, execution_order, agents_map, args_verbose,
                  gemini_api_key, env_model_name, args_input_text,
                  voice_input, initial_input_text,
                  agents_to_run_in_loop, markdown_logger_details,
                  pipeline_run_history, inspect_bound, resolved, audio_calls,
                  logger_calls, printed, log_status, exit_status, bind_in,
                  bind_out>>

\* One stage whose agent loads: process_text is called on the current text
\* and what it returns becomes the current text.
DegradeCall ==
    /\ pc = "degrade"
    /\ i <= MaxStages
    /\ \E agent \in GeminiAgents, outcome \in GeminiOutcomes :
          /\ ~GeminiExecRaises(agent, gemini_api_key, outcome)
          /\ LET returned == GeminiAgent_returns(agent, current_text, outcome)
             IN  /\ calls' = Append(calls, [agent |-> agent, outcome |-> outcome,
                                            text |-> current_text,
                                            raised |-> FALSE,
                                            returned |-> returned])
                 /\ current_text' = returned
    /\ i' = i + 1
    /\ UNCHANGED <<pc, run_state>>
    /\ UNCHANGED degrade_vars

\* One stage whose agent raises while its module is executed: nothing is
\* returned and the chain stops.
DegradeLoadRaises ==
    /\ pc = "degrade"
    /\ i <= MaxStages
    /\ \E agent \in GeminiAgents, outcome \in GeminiOutcomes :
          /\ GeminiExecRaises(agent, gemini_api_key, outcome)
          /\ calls' = Append(calls, [agent |-> agent, outcome |-> outcome,
                                     text |-> current_text, raised |-> TRUE,
                                     returned |-> <<>>])
    /\ pc' = "raised"
    /\ run_state' = "Halted"
    /\ UNCHANGED <<i, current_text>>
    /\ UNCHANGED degrade_vars

NextDegrade == DegradeCall \/ DegradeLoadRaises

SpecDegrade == InitDegrade /\ [][NextDegrade]_vars

(***************************************************************************)
(* MarkdownLogger.log_run_to_markdown on its own, for any input, any list  *)
(* of steps, any filename base and any state of the log directory          *)
(***************************************************************************)
MaxSteps == 3

MaxBase == 3

\* original_filename_base[:30]
FilenameLimit == 30

\* characters of a filename base: a letter, a space, a hyphen and a
\* punctuation mark
FilenameChars == {"a", " ", "-", "!"}

\* c.isalnum()
IsAlnum(c) == c \in {"a", "l", "o", "g"}

Min(a, b) == IF a < b THEN a ELSE b

RECURSIVE RStrip(_)
\* str.rstrip()
RStrip(s) ==
    IF s # <<>> /\ s[Len(s)] = " " THEN RStrip(SubSeq(s, 1, Len(s) - 1)) ELSE s

\* safe_base: the sanitised filename base
SafeBase(original_filename_base) ==
    LET cut == SubSeq(original_filename_base, 1,
                      Min(Len(original_filename_base), FilenameLimit))
        kept == [k \in 1..Len(cut) |->
                    IF IsAlnum(cut[k]) \/ cut[k] \in {" ", "_", "-"}
                    THEN cut[k] ELSE "_"]
        stripped == RStrip(kept)
        safe_base == [k \in 1..Len(stripped) |->
                         IF stripped[k] = " " THEN "_" ELSE stripped[k]]
    IN  IF safe_base = <<>> THEN <<"l", "o", "g">> ELSE safe_base

\* one section of the document: its heading, the agent the heading names
\* (None when it names no agent) and the text of its code block
Section(heading, name, text) ==
    [heading |-> heading, agent_name |-> name, text |-> text]

\* FinalSection that is written for an empty list of steps as well
FinalSection_always(initial_input, pipeline_steps) ==
    <<Section("Final Text Processed by Pipeline (before logging)", None,
              IF pipeline_steps # <<>>
              THEN pipeline_steps[Len(pipeline_steps)].output_text
              ELSE initial_input)>>

\* the section appended after the loop over the steps
FinalSection(initial_input, pipeline_steps) ==
    IF pipeline_steps # <<>>
    THEN <<Section("Final Text Processed by Pipeline (before logging)", None,
                   pipeline_steps[Len(pipeline_steps)].output_text)>>
    ELSE <<>>

\* markdown_content, as the list of its sections below the title
MarkdownContent(initial_input, pipeline_steps) ==
    <<Section("Initial Input", None, initial_input)>>
    \o [k \in 1..Len(pipeline_steps) |->
           Section("After Agent", pipeline_steps[k].agent_name,
                   pipeline_steps[k].output_text)]
    \o FinalSection(initial_input, pipeline_steps)

\* the log directory: it exists, or os.makedirs creates it, or os.makedirs
\* raises
LogDirs == {"exists", "creatable", "uncreatable"}

\* open(...) and f.write(...): they succeed or raise IOError
LogWrites == {"ok", "IOError"}

\* log_run_to_markdown: whether it raised, the status it returned, the
\* name of the log file, the document, and whether the file was written
log_run_to_markdown(initial_input, pipeline_steps, base, logs_dir, write) ==
    LET log_filename == <<"timestamp">> \o SafeBase(base)
        markdown_content == MarkdownContent(initial_input, pipeline_steps)
    IN  IF logs_dir = "uncreatable"
        THEN [raised |-> TRUE, status |-> None,
              log_filename |-> log_filename,
              markdown_content |-> markdown_content, written |-> FALSE]
        ELSE IF write = "ok"
        THEN [raised |-> FALSE, status |-> "Log successfully saved to",
              log_filename |-> log_filename,
              markdown_content |-> markdown_content, written |-> TRUE]
        ELSE [raised |-> FALSE, status |-> "Error saving log file",
              log_filename |-> log_filename,
              markdown_content |-> markdown_content, written |-> FALSE]

LogTexts == {<<"hello">>, <<"x">>}

LogRecords == [agent_name : {"ConceptReframer", "HumorAgent"},
               output_text : LogTexts]

LogSteps == UNION { [1..n -> LogRecords] : n \in 0..MaxSteps }

LogBases == UNION { [1..n -> FilenameChars] : n \in 0..MaxBase }

InitLog ==
    /\ bind_in \in [initial_input : {<<"hello">>}, pipeline_steps : LogSteps,
                    original_filename_base : LogBases,
                    logs_dir : LogDirs, write : LogWrites]
    /\ bind_out = <<>>
    /\ pc = "log"
    /\ config_file = "ok"
    /\ execution_order = <<>>
    /\ agents_map = <<>>
    /\ args_verbose = FALSE
    /\ gemini_api_key = TRUE
    /\ env_model_name = None
    /\ args_input_text = <<bind_in.initial_input>>
    /\ voice_input = "unavailable"
    /\ initial_input_text = bind_in.initial_input
    /\ run_state = "Finished"
    /\ i = 1
    /\ agents_to_run_in_loop = <<>>
    /\ markdown_logger_details = <<>>
    /\ current_text = bind_in.initial_input
    /\ pipeline_run_history = bind_in.pipeline_steps
    /\ inspect_bound = TRUE
    /\ resolved = <<>>
    /\ calls = <<>>
    /\ audio_calls = <<>>
    /\ logger_calls = <<>>
    /\ printed = <<>>
    /\ log_status = <<>>
    /\ exit_status = NotExited

\* log_run_to_markdown is called on bind_in.
LogRun ==
    /\ pc = "log"
    /\ pc' = "logged"
    /\ bind_out' = <<log_run_to_markdown(bind_in.initial_input,
                                         bind_in.pipeline_steps,
                                         bind_in.original_filename_base,
                                         bind_in.logs_dir, bind_in.write)>>
    /\ UNCHANGED <<config_file, execution_order, agents_map, args_verbose,
                   gemini_api_key, env_model_name, args_input_text,
                   voice_input, initial_input_text,
                   run_state, i, agents_to_run_in_loop,
                   markdown_logger_details, current_text,
                   pipeline_run_history, inspect_bound, resolved, calls,
                   audio_calls, logger_calls, printed, log_status,
                   exit_status, bind_in>>

NextLog == LogRun

SpecLog == InitLog /\ [][NextLog]_vars

(***************************************************************************)
(* Properties                                                              *)
(***************************************************************************)
Started == run_state # "Idle"

Ended == pc = "done" /\ Started

\* entry k of a list of names is one the loop skips: its name is not a key
\* of the agent map, or its agent has no path
EntrySkipped(order, k) ==
    IF order[k] \notin DOMAIN agents_map THEN TRUE
    ELSE agents_map[order[k]].path \in {None, ""}

\* the positions of the loop's list that the loop has passed
Passed == IF run_state = "Halted" THEN 1..(i - 1)
          ELSE IF pc = "loop" THEN 1..(i - 1)
          ELSE 1..Len(agents_to_run_in_loop)

\* C1: the non-skipped entries are invoked one at a time, in their declared
\* order, each exactly once per occurrence, and each invocation receives as
\* text what the previously invoked stage returned (the initial input for
\* the first one).
C1_SequentialThreading ==
    /\ [](Started =>
            /\ \A k \in 1..Len(calls) :
                  /\ calls[k].pos \in 1..Len(agents_to_run_in_loop)
                  /\ calls[k].agent = agents_to_run_in_loop[calls[k].pos]
                  /\ calls[k].call_args["text"] =
                        IF k = 1 THEN initial_input_text
                        ELSE calls[k - 1].returned
            /\ \A k \in 1..(Len(calls) - 1) : calls[k].pos < calls[k + 1].pos
            /\ \A p \in Passed :
                  Cardinality({k \in 1..Len(calls) : calls[k].pos = p}) =
                     IF EntrySkipped(agents_to_run_in_loop, p) THEN 0 ELSE 1)
    /\ [][\/ calls' = calls
          \/ \E c \in {calls'[Len(calls')]} : calls' = Append(calls, c)]_vars

\* two stages were invoked around a skipped entry, the second with the
\* first one's output
C1_Witness ==
    /\ Len(calls) = 2
    /\ calls[2].pos = calls[1].pos + 2
    /\ calls[2].call_args["text"] = calls[1].returned
    /\ calls[1].returned # initial_input_text

\* every entry of execution_order names an agent of the map whose path
\* resolves to a module that loads and exposes process_text
ValidConfig ==
    \A k \in 1..Len(execution_order) :
       /\ ~EntrySkipped(execution_order, k)
       /\ LET path == agents_map[execution_order[k]].path IN
          /\ PathExists(path)
          /\ ~SpecIsNone(path)
          /\ ~ExecRaises(path, gemini_api_key)
          /\ HasProcessText(path)

NoLogger == ~InOrder(LoggerName, execution_order)

\* C2: for a valid configuration with N entries and no logger, the run
\* produces exactly N StepRecords, record k carrying the name of entry k and
\* an output text that is not null.
C2_OneRecordPerEntry ==
    (Ended /\ ValidConfig /\ NoLogger) =>
        /\ Len(pipeline_run_history) = Len(execution_order)
        /\ \A k \in 1..Len(pipeline_run_history) :
              /\ pipeline_run_history[k].agent_name = execution_order[k]
              /\ pipeline_run_history[k].output_text \in Seq(STRING)

\* a finished run of three valid entries, two of them different agents
C2_Witness ==
    /\ Ended /\ ValidConfig /\ NoLogger
    /\ Len(execution_order) = 3
    /\ execution_order[1] # execution_order[2]
    /\ Len(pipeline_run_history) = 3

LoggerErrors == {"Error running MarkdownLogger",
                 "Error: no log_run_to_markdown function"}

\* C3: log_run_to_markdown is invoked only if the logger name is a key of
\* the agent map and the last entry of execution_order; exactly in that case
\* the last entry is taken out of the loop and is not invoked through
\* process_text; when the logger name is not in execution_order, no logger
\* invocation is attempted and no logger error is reported.
C3_LoggerOnlyWhenLast ==
    LET last == LoggerName \in DOMAIN agents_map
                /\ execution_order # <<>>
                /\ execution_order[Len(execution_order)] = LoggerName
    IN  /\ logger_calls # <<>> => last
        /\ Started =>
              /\ last => /\ agents_to_run_in_loop = Front(execution_order)
                         /\ \A k \in 1..Len(calls) :
                               calls[k].pos < Len(execution_order)
              /\ ~last => agents_to_run_in_loop = execution_order
        /\ NoLogger =>
              /\ logger_calls = <<>>
              /\ \A k \in 1..Len(printed) : printed[k] \notin LoggerErrors

\* the logger was invoked after a loop that ran a stage
C3_Witness ==
    /\ pc = "done"
    /\ Len(logger_calls) = 1
    /\ Len(calls) >= 1
    /\ Len(agents_to_run_in_loop) = Len(execution_order) - 1

\* the logger is the terminal stage and its path is the logger module
LoggerStageSet ==
    /\ LoggerName \in DOMAIN agents_map
    /\ execution_order # <<>>
    /\ execution_order[Len(execution_order)] = LoggerName
    /\ agents_map[LoggerName].path = "agents/MarkdownLogger/MarkdownLogger.py"

\* C4: whenever the logger stage was set and the main loop ends without
\* halting, log_run_to_markdown is invoked exactly once, with the original
\* input and the entire run history; also when no main stage was executed.
C4_LoggerAlwaysInvoked ==
    (pc = "done" /\ run_state = "Finished" /\ LoggerStageSet) =>
        /\ Len(logger_calls) = 1
        /\ logger_calls[1].initial_input = initial_input_text
        /\ logger_calls[1].pipeline_steps = pipeline_run_history

\* the number of skipped entries among the first n of execution_order
SkippedAmong(n) ==
    Cardinality({k \in 1..n : EntrySkipped(execution_order, k)})

\* C5 as stated: the history passed to the logger has length
\* len(execution_order) - 1.
C5_AsStated ==
    logger_calls # <<>> =>
        Len(logger_calls[1].pipeline_steps) = Len(execution_order) - 1

\* C5: the history passed to the logger has length len(execution_order) - 1
\* less the number of skipped entries; exactly len(execution_order) - 1 when
\* no entry is skipped.
C5_HistoryLength ==
    logger_calls # <<>> =>
        /\ execution_order[Len(execution_order)] = LoggerName
        /\ Len(logger_calls[1].pipeline_steps) =
              Len(execution_order) - 1 - SkippedAmong(Len(execution_order) - 1)

\* the logger received a history shortened by a skipped entry
C5_Witness ==
    /\ logger_calls # <<>>
    /\ SkippedAmong(Len(execution_order) - 1) = 1
    /\ Len(logger_calls[1].pipeline_steps) = 1

LoggerNotLast ==
    /\ InOrder(LoggerName, execution_order)
    /\ execution_order[Len(execution_order)] # LoggerName

Placeholder == <<"MarkdownLogger executed.">>

\* C6 as stated: a logger name that is present but not last is invoked
\* through process_text without halting, log_run_to_markdown is never
\* invoked, and the final history length is len(execution_order).
C6_AsStated ==
    (Ended /\ LoggerNotLast) =>
        /\ run_state = "Finished"
        /\ \E k \in 1..Len(calls) : calls[k].agent = LoggerName
        /\ logger_calls = <<>>
        /\ Len(pipeline_run_history) = Len(execution_order)

\* C6: in a valid configuration, a logger name that is present but not last
\* stays in the loop and is invoked through process_text without halting:
\* its placeholder output becomes the current text and a StepRecord,
\* log_run_to_markdown is never invoked, and the final history length is
\* len(execution_order).
C6_LoggerAsOrdinaryStage ==
    (Started /\ ValidConfig /\ LoggerNotLast) =>
        /\ agents_to_run_in_loop = execution_order
        /\ run_state # "Halted"
        /\ logger_calls = <<>>
        /\ \A p \in Passed :
              execution_order[p] = LoggerName =>
                 /\ p <= Len(calls)
                 /\ calls[p].pos = p /\ calls[p].agent = LoggerName
                 /\ pipeline_run_history[p] =
                       [agent_name |-> LoggerName, output_text |-> Placeholder]
                 /\ p = Len(pipeline_run_history) => current_text = Placeholder
        /\ pc = "done" => Len(pipeline_run_history) = Len(execution_order)

\* the logger ran as the first of two stages and the run finished
C6_Witness ==
    /\ Ended /\ ValidConfig /\ LoggerNotLast
    /\ Len(pipeline_run_history) = Len(execution_order)
    /\ pipeline_run_history[1].agent_name = LoggerName
    /\ pipeline_run_history[2].agent_name # LoggerName

\* the entry at position i of the loop raises a structural error: its path
\* does not exist or cannot be loaded, its module raises while loading, or
\* it has no process_text
StageRaises ==
    /\ pc = "loop" /\ i <= Len(agents_to_run_in_loop)
    /\ ~EntrySkipped(agents_to_run_in_loop, i)
    /\ LET path == agents_map[agents_to_run_in_loop[i]].path IN
          \/ ~PathExists(path)
          \/ SpecIsNone(path)
          \/ ExecRaises(path, gemini_api_key)
          \/ ~HasProcessText(path)

\* the number of skipped entries among the first n of the loop's list
SkippedInLoop(n) ==
    Cardinality({k \in 1..n : EntrySkipped(agents_to_run_in_loop, k)})

\* C7 as stated: when stage k raises, the run is Halted with exactly k-1
\* records.
C7_AsStated ==
    run_state = "Halted" => Len(pipeline_run_history) = i - 1

\* C7: when stage k raises a structural error, the run is Halted and the
\* history holds one record for each of the first k-1 entries that was not
\* skipped (exactly k-1 when none was skipped).
C7_HaltedHistory ==
    /\ [](run_state = "Halted" =>
             Len(pipeline_run_history) = (i - 1) - SkippedInLoop(i - 1))
    /\ [][StageRaises =>
             /\ run_state' = "Halted"
             /\ i' = i
             /\ Len(pipeline_run_history') = (i - 1) - SkippedInLoop(i - 1)]_vars

\* the third entry raised after one executed and one skipped entry
C7_Witness ==
    /\ run_state = "Halted"
    /\ i = 3
    /\ Len(pipeline_run_history) = 1

\* C8: once a stage fails the run halts: the failing stage changes neither
\* the current text nor the history, the error is reported, and no later
\* entry is resolved or invoked.
C8_HaltStopsRun ==
    /\ [][StageRaises =>
             /\ run_state' = "Halted" /\ pc' = "done"
             /\ current_text' = current_text
             /\ pipeline_run_history' = pipeline_run_history
             /\ calls' = calls
             /\ Len(printed') = Len(printed) + 2
             /\ printed'[Len(printed')] = "Pipeline execution halted."]_vars
    /\ [][run_state = "Halted" =>
             /\ run_state' = "Halted"
             /\ resolved' = resolved /\ calls' = calls
             /\ logger_calls' = logger_calls]_vars
    /\ [](run_state = "Halted" =>
             /\ \A k \in 1..Len(resolved) : resolved[k][1] <= i
             /\ \A k \in 1..Len(calls) : calls[k].pos < i)

\* a stage failed after an executed one, with a later entry left unrun
C8_Witness ==
    /\ run_state = "Halted"
    /\ i < Len(agents_to_run_in_loop)
    /\ Len(pipeline_run_history) >= 1
    /\ current_text = pipeline_run_history[Len(pipeline_run_history)].output_text

\* C9 as stated: the terminal logger also runs after a main loop that
\* halted and returned.
C9_AsStated ==
    (pc = "done" /\ run_state = "Halted" /\ LoggerStageSet
       /\ pipeline_run_history # <<>>) => Len(logger_calls) = 1

\* C9: the terminal logger runs only after the main loop has ended without
\* halting, and no main stage is resolved or invoked after it; after a
\* halted main loop main() returns and the logger is not invoked.
C9_LoggerAfterLoop ==
    /\ [](logger_calls # <<>> =>
             /\ run_state = "Finished" /\ pc = "done"
             /\ Len(logger_calls) = 1
             /\ \A k \in 1..Len(calls) :
                   calls[k].returned \in
                      {logger_calls[1].pipeline_steps[j].output_text :
                          j \in 1..Len(logger_calls[1].pipeline_steps)})
    /\ [](run_state = "Halted" => logger_calls = <<>>)
    /\ [][logger_calls # <<>> =>
             calls' = calls /\ resolved' = resolved]_vars

\* the logger ran after a loop that finished with two stages invoked
C9_Witness ==
    /\ Len(logger_calls) = 1
    /\ Len(calls) = 2
    /\ run_state = "Finished"

\* C10: an entry whose name is not in the agent map, or whose agent has no
\* path, is skipped: nothing is resolved or invoked, the current text and
\* the history are unchanged, and the loop goes on with the next entry.
C10_SkipIsNoOp ==
    [][(pc = "loop" /\ i <= Len(agents_to_run_in_loop)
          /\ EntrySkipped(agents_to_run_in_loop, i)) =>
          /\ resolved' = resolved
          /\ calls' = calls
          /\ current_text' = current_text
          /\ pipeline_run_history' = pipeline_run_history
          /\ run_state' = "Running"
          /\ pc' = "loop"
          /\ i' = i + 1]_vars

\* an entry without a path was skipped after an executed stage, and the
\* loop stands at the next entry
C10_Witness ==
    /\ pc = "loop"
    /\ i = 3 /\ i <= Len(agents_to_run_in_loop)
    /\ agents_to_run_in_loop[2] \in DOMAIN agents_map
    /\ EntrySkipped(agents_to_run_in_loop, 2)
    /\ Len(pipeline_run_history) = 1
    /\ resolved = <<<<1, agents_map[agents_to_run_in_loop[1]].path>>>>

\* the entries of execution_order whose name is not a key of the agent map
AbsentEntries ==
    {k \in 1..Len(execution_order) : execution_order[k] \notin DOMAIN agents_map}

\* exactly one entry names an unknown agent and every other entry names an
\* agent whose path resolves to a module that loads with its entry point
OneUnknownEntry ==
    /\ Cardinality(AbsentEntries) = 1
    /\ \A k \in (1..Len(execution_order)) \ AbsentEntries :
          LET path == agents_map[execution_order[k]].path IN
          /\ path \notin {None, ""}
          /\ PathExists(path) /\ ~SpecIsNone(path)
          /\ ~ExecRaises(path, gemini_api_key)
          /\ IF k = Len(execution_order) /\ execution_order[k] = LoggerName
             THEN HasLogRunToMarkdown(path) ELSE HasProcessText(path)

UnknownWarning == "Warning: agent not found. Skipping."

Warned == \E k \in 1..Len(printed) : printed[k] = UnknownWarning

Bound == pc = "bound" /\ bind_out # <<>>

DeclaredParams == {bind_in.sig.parameters[k] : k \in DOMAIN bind_in.sig.parameters}

Blank(str) == str \in {None, "", " "}

\* the model the priority rule selects for the binding's inputs
ExpectedModel ==
    IF ~Blank(bind_in.gpt_version) /\ bind_in.gpt_version \notin {"n/a", "N/A"}
    THEN bind_in.gpt_version
    ELSE IF ~Blank(bind_in.env_model_name) THEN bind_in.env_model_name
    ELSE None

\* C12: the effective model is the agent's gpt_version if it is non-blank
\* and not the n/a sentinel, otherwise the environment value if non-blank,
\* otherwise none; with none, no model_name argument is passed.
C12_ModelPriority ==
    Bound =>
        /\ bind_out[1].model = ExpectedModel
        /\ ExpectedModel = None => "model_name" \notin DOMAIN bind_out[1].call_args
        /\ (ExpectedModel # None /\ "model_name" \in DeclaredParams) =>
              /\ "model_name" \in DOMAIN bind_out[1].call_args
              /\ bind_out[1].call_args["model_name"] = ExpectedModel

\* the sentinel in upper case gave way to the environment default
C12_Witness ==
    /\ Bound
    /\ bind_in.gpt_version = "N/A"
    /\ bind_in.env_model_name = "gemini-env"
    /\ "model_name" \in DOMAIN bind_out[1].call_args
    /\ bind_out[1].call_args["model_name"] = "gemini-env"

\* C13: a process_text without a model_name parameter never receives
\* model_name, whatever gpt_version, the environment default and the
\* configured params are, and verbosity_level is passed only to a
\* process_text that declares it.
C13_BindingRespectsSignature ==
    Bound =>
        /\ "model_name" \notin DeclaredParams =>
              "model_name" \notin DOMAIN bind_out[1].call_args
        /\ "verbosity_level" \in DOMAIN bind_out[1].call_args =>
              "verbosity_level" \in DeclaredParams
        /\ bind_out[1].call_args["text"] = bind_in.text

\* a resolved model and a configured model_name were both dropped for a
\* process_text(text, **kwargs)
C13_Witness ==
    /\ Bound
    /\ bind_in.sig.parameters = <<"text", "kwargs">>
    /\ bind_out[1].model = "gemini-1.5-pro-latest"
    /\ "model_name" \in DOMAIN bind_in.params
    /\ "tone" \in DOMAIN bind_out[1].call_args
    /\ "model_name" \notin DOMAIN bind_out[1].call_args

\* C14: every configured entry that matches a declared named parameter other
\* than text, model_name and verbosity_level is forwarded with its value; an
\* entry that matches no declared parameter is forwarded if and only if
\* process_text declares a **kwargs capture.
C14_ParamsForwarded ==
    Bound =>
        \A k \in (DOMAIN bind_in.params) \ ReservedParams :
           IF k \in DeclaredParams
           THEN /\ k \in DOMAIN bind_out[1].call_args
                /\ bind_out[1].call_args[k] = bind_in.params[k]
           ELSE k \in DOMAIN bind_out[1].call_args
                   <=> bind_in.sig.var_keyword # None

\* the path of the entry at which the run halted, and the report printed
HaltedPath == agents_map[agents_to_run_in_loop[i]].path

HaltedReport == printed[Len(printed) - 1]

C16_LoggerFailureContained ==
    [][(/\ pc = "logger"
        /\ markdown_logger_details # <<>>
        /\ markdown_logger_details[1].path \notin {None, ""}) =>
          /\ pc' = "done"
          /\ run_state = "Finished" /\ run_state' = "Finished"
          /\ exit_status' = ExitOnReturn
          /\ pipeline_run_history' = pipeline_run_history
          /\ current_text' = current_text
          /\ log_status' = <<>> =>
                /\ Len(printed') = Len(printed) + 1
                /\ printed'[Len(printed')] \in LoggerErrors]_vars

\* log_run_to_markdown was called and raised, in a run that is not verbose
C16_Witness ==
    /\ pc = "done"
    /\ run_state = "Finished"
    /\ ~args_verbose
    /\ Len(logger_calls) = 1
    /\ log_status = <<>>
    /\ printed # <<>>
    /\ printed[Len(printed)] = "Error running MarkdownLogger"
    /\ Len(pipeline_run_history) >= 1

\* the call returned its input followed by an inline error marker
Degraded(c) ==
    LET text == c.call_args["text"] IN
    /\ Len(c.returned) = Len(text) + 3
    /\ SubSeq(c.returned, 1, Len(text)) = text
    /\ c.returned[Len(text) + 1] \in ErrorMarkers

\* C17: a failure that the agent caught and encoded in its returned text
\* never halts the pipeline: the stage counts as a success, a StepRecord
\* with the annotated text is appended, and the next stage is invoked with
\* the annotated text.
C17_DegradedOutputContinues ==
    /\ [](\A k \in 1..Len(calls) :
             Degraded(calls[k]) =>
                /\ k <= Len(pipeline_run_history)
                /\ pipeline_run_history[k] =
                      [agent_name |-> calls[k].agent,
                       output_text |-> calls[k].returned]
                /\ k = Len(calls) => current_text = calls[k].returned
                /\ k < Len(calls) =>
                      calls[k + 1].call_args["text"] = calls[k].returned)
    /\ [][(calls' # calls /\ Degraded(calls'[Len(calls')])) =>
             /\ run_state' = "Running"
             /\ pc' = "loop"
             /\ i' = i + 1]_vars

\* a stage was invoked with the annotated text of a degraded stage
C17_Witness ==
    /\ Len(calls) = 2
    /\ Degraded(calls[1])
    /\ calls[2].call_args["text"] = calls[1].returned
    /\ Len(pipeline_run_history) = 2

\* C18: if pipeline_config.json is missing or is not valid JSON, no run is
\* attempted: no agent is resolved or invoked, no audio is generated and the
\* logger is not invoked.
C18_ConfigErrorIsFatal ==
    config_file # "ok" =>
        /\ run_state = "Idle"
        /\ pc \in {"start", "done"}
        /\ resolved = <<>> /\ calls = <<>>
        /\ audio_calls = <<>> /\ logger_calls = <<>>
        /\ pipeline_run_history = <<>>
        /\ pc = "done" =>
              printed \in {<<"Error: pipeline_config.json not found.">>,
                           <<"Error: Could not decode pipeline_config.json.">>}

\* main() returned on an undecodable file that was meant to hold a
\* runnable pipeline
C18_Witness ==
    /\ config_file = "invalid"
    /\ pc = "done"
    /\ execution_order # <<>>
    /\ DOMAIN agents_map # {}
    /\ printed = <<"Error: Could not decode pipeline_config.json.">>

\* C19: a run that ends Halted makes the process exit with a non-zero
\* status, a Finished run reports success.
C19_ExitStatus ==
    pc = "done" =>
        /\ run_state = "Halted" => exit_status # 0
        /\ run_state = "Finished" => exit_status = 0

\* C20: the run history is append-only: every step leaves it unchanged or
\* appends exactly one StepRecord at its end, the record of the call that
\* has just succeeded; earlier records are never changed, removed or
\* reordered.
C20_HistoryAppendOnly ==
    [][\/ pipeline_run_history' = pipeline_run_history
       \/ /\ Len(pipeline_run_history') = Len(pipeline_run_history) + 1
          /\ SubSeq(pipeline_run_history', 1, Len(pipeline_run_history)) =
                pipeline_run_history
          /\ Len(calls') = Len(calls) + 1
          /\ pipeline_run_history'[Len(pipeline_run_history')] =
                [agent_name |-> calls'[Len(calls')].agent,
                 output_text |-> calls'[Len(calls')].returned]]_vars

\* a history of three records, the first two by different agents
C20_Witness ==
    /\ Len(pipeline_run_history) = 3
    /\ pipeline_run_history[1].agent_name # pipeline_run_history[2].agent_name
    /\ pipeline_run_history[1].output_text # pipeline_run_history[2].output_text

IsPrefix(p, t) == Len(p) <= Len(t) /\ SubSeq(t, 1, Len(p)) = p

\* the call returned its input text followed by an '(Error: ...)' marker
Annotated(c) ==
    /\ ~c.raised
    /\ Len(c.returned) > Len(c.text)
    /\ IsPrefix(c.text, c.returned)
    /\ c.returned[Len(c.text) + 1] \in
          {"(Error: Could not initialize model",
           "(Error: Could not connect to Gemini",
           "(Error: Could not initialize TextSimplifierAgent model",
           "(Error: Could not connect to Gemini for enhancement"}

\* C21 as stated: whenever the model initialisation or the generate call of
\* HumorAgent, TextSimplifierAgent or ImageryEnhancer fails, process_text
\* returns the input text followed by an error marker.
C21_AsStated ==
    gemini_api_key =>
        \A k \in 1..Len(calls) :
            calls[k].outcome # "replies" => Annotated(calls[k])

\* C21: HumorAgent and TextSimplifierAgent return the input text followed
\* by an error marker when the model initialisation or the generate call
\* fails, and ImageryEnhancer does so when the generate call fails; a
\* failing model initialisation of ImageryEnhancer raises while its module
\* is executed.  Over consecutive degraded stages the initial input remains
\* a prefix of the current text.
C21_DegradedOutput ==
    gemini_api_key =>
        /\ \A k \in 1..Len(calls) :
              LET c == calls[k]
                  at_import == c.agent = "ImageryEnhancer"
                                  /\ c.outcome = "init_fails"
              IN  /\ (c.outcome # "replies" /\ ~at_import) => Annotated(c)
                  /\ at_import => (c.raised /\ c.returned = <<>>)
        /\ (\A k \in 1..Len(calls) :
               calls[k].outcome # "replies" /\ ~calls[k].raised)
              => IsPrefix(initial_input_text, current_text)

\* three consecutive degraded stages, one by each agent
C21_Witness ==
    /\ gemini_api_key
    /\ Len(calls) = 3
    /\ {calls[k].agent : k \in 1..3} = GeminiAgents
    /\ \A k \in 1..3 : Annotated(calls[k])
    /\ initial_input_text = <<"hello", "world">>
    /\ Len(current_text) > Len(initial_input_text) + 6

Logged == pc = "logged"

\* C22: the document of log_run_to_markdown has the initial input section
\* first, then exactly one 'After Agent' section per element of
\* pipeline_steps, in the same order and with that step's agent_name and
\* output_text; a 'Final Text' section follows if and only if
\* pipeline_steps is not empty, and holds the output_text of the last step.
C22_DocumentStructure ==
    Logged =>
        LET doc == bind_out[1].markdown_content
            steps == bind_in.pipeline_steps
            n == Len(steps)
        IN  /\ Len(doc) = 1 + n + (IF n > 0 THEN 1 ELSE 0)
            /\ doc[1] = [heading |-> "Initial Input", agent_name |-> None,
                         text |-> bind_in.initial_input]
            /\ \A k \in 1..n :
                  doc[k + 1] = [heading |-> "After Agent",
                                agent_name |-> steps[k].agent_name,
                                text |-> steps[k].output_text]
            /\ \A k \in 1..Len(doc) :
                  doc[k].heading =
                      "Final Text Processed by Pipeline (before logging)"
                  => /\ n > 0
                     /\ k = n + 2
                     /\ doc[k].text = steps[n].output_text
            /\ n > 0 => doc[n + 2].heading =
                      "Final Text Processed by Pipeline (before logging)"

\* a saved document of three steps by two agents
C22_Witness ==
    /\ Logged
    /\ bind_out[1].written
    /\ Len(bind_in.pipeline_steps) = 3
    /\ bind_in.pipeline_steps[1].agent_name
          # bind_in.pipeline_steps[2].agent_name
    /\ bind_in.pipeline_steps[2].output_text
          # bind_in.pipeline_steps[3].output_text
    /\ Len(bind_out[1].markdown_content) = 5

\* C23: when original_filename_base has no alphanumeric character at all,
\* the log file is named '<timestamp>_log.md'.
C23_FilenameFallback ==
    Logged =>
        ((\A k \in 1..Len(bind_in.original_filename_base) :
             ~IsAlnum(bind_in.original_filename_base[k]))
         => bind_out[1].log_filename = <<"timestamp", "l", "o", "g">>)

\* C24: log_run_to_markdown always returns a status string: 'Error saving
\* log file' when the log cannot be saved, never an exception, and a
\* status naming the saved path on success.
C24_AlwaysStatus ==
    Logged =>
        /\ ~bind_out[1].raised
        /\ bind_out[1].status \in {"Log successfully saved to",
                                   "Error saving log file"}
        /\ bind_out[1].written
              <=> bind_out[1].status = "Log successfully saved to"

\* the text of the 'Final Text' section of the log written for a call
LoggedFinalText(log_call_args) ==
    LET doc == MarkdownContent(log_call_args.initial_input,
                               log_call_args.pipeline_steps)
    IN  doc[Len(doc)].text

\* C25: in every state of a run current_text is the initial input while
\* the history is empty, and the output_text of the last record of the
\* history otherwise; so the text handed to the audio synthesis is the text
\* the logger reports as final whenever the history is not empty.
C25_CurrentTextIsLastOutput ==
    /\ Started =>
          current_text =
             IF pipeline_run_history = <<>> THEN initial_input_text
             ELSE pipeline_run_history[Len(pipeline_run_history)].output_text
    /\ \A a \in 1..Len(audio_calls), l \in 1..Len(logger_calls) :
          logger_calls[l].pipeline_steps # <<>>
          => audio_calls[a] = LoggedFinalText(logger_calls[l])

\* a run of two stages whose final text was spoken and logged
C25_Witness ==
    /\ pc = "done"
    /\ Len(pipeline_run_history) = 2
    /\ current_text # initial_input_text
    /\ Len(audio_calls) = 1
    /\ Len(logger_calls) = 1
    /\ audio_calls[1] = pipeline_run_history[2].output_text

\* C26: a configured entry named text, model_name or verbosity_level is
\* never forwarded: the text argument is the current text and the other two
\* carry the executor's values, whatever the configured params are and
\* whether or not process_text declares **kwargs.
C26_ReservedNotOverridden ==
    Bound =>
        LET call_args == bind_out[1].call_args IN
        /\ call_args["text"] = current_text
        /\ \A k \in ReservedParams \cap DOMAIN bind_in.params :
              k \in DOMAIN call_args => call_args[k] # bind_in.params[k]
        /\ "model_name" \in DOMAIN call_args =>
              call_args["model_name"] = bind_out[1].model
        /\ "verbosity_level" \in DOMAIN call_args =>
              call_args["verbosity_level"] \in {0, 2}

\* all three reserved names were configured for a process_text that
\* declares them and **kwargs, together with a name that was forwarded
C26_Witness ==
    /\ Bound
    /\ ReservedParams \subseteq DOMAIN bind_in.params
    /\ bind_in.sig.var_keyword = "kwargs"
    /\ "model_name" \in DeclaredParams
    /\ "style" \in DOMAIN bind_out[1].call_args
    /\ bind_out[1].call_args["text"] = <<"hello">>

\* the entry the loop is at names a module that raises while it is executed
AtRaisingModule ==
    /\ AtStage
    /\ IF agents_to_run_in_loop[i] \notin DOMAIN agents_map THEN FALSE
       ELSE LET path == agents_map[agents_to_run_in_loop[i]].path IN
            /\ path \in {"agents/HumorAgent/HumorAgent.py", "app.py"}
            /\ ~gemini_api_key

\* C27: an exception raised while the agent's module is executed during
\* resolution halts the run before process_text is called: current_text and
\* the history are unchanged and the failure is reported as an error, not
\* turned into annotated text.
C27_ImportFailureHalts ==
    [][AtRaisingModule =>
          /\ run_state' = "Halted"
          /\ pc' = "done"
          /\ calls' = calls
          /\ current_text' = current_text
          /\ pipeline_run_history' = pipeline_run_history
          /\ Len(printed') = Len(printed) + 2
          /\ printed'[Len(printed) + 1] =
                "An unexpected error occurred while running agent"]_vars

\* HumorAgent raised at import, without GEMINI_API_KEY, after a first stage
\* had succeeded
C27_Witness ==
    /\ run_state = "Halted"
    /\ ~gemini_api_key
    /\ agents_map[agents_to_run_in_loop[i]].path
          = "agents/HumorAgent/HumorAgent.py"
    /\ Len(calls) = 1
    /\ Len(pipeline_run_history) = 1
    /\ current_text = pipeline_run_history[1].output_text

\* C28: speech synthesis is attempted only after every main stage has
\* completed without a halt, it receives the final current_text, and it
\* comes before the logger invocation; a failure of the synthesis neither
\* changes the history nor keeps main() from reaching the logger, and a
\* halted run generates no audio.
C28_AudioAfterLoop ==
    /\ [](audio_calls # <<>> =>
             /\ run_state = "Finished"
             /\ pc \in {"logger", "done"}
             /\ i > Len(agents_to_run_in_loop)
             /\ audio_calls = <<current_text>>)
    /\ [](run_state = "Halted" => audio_calls = <<>>)
    /\ [][audio_calls' # audio_calls =>
             /\ pc = "audio"
             /\ logger_calls' = <<>>
             /\ log_status' = <<>>]_vars
    /\ [][pc = "audio" =>
             /\ pc' = "logger"
             /\ run_state' = "Finished"
             /\ pipeline_run_history' = pipeline_run_history
             /\ current_text' = current_text
             /\ markdown_logger_details' = markdown_logger_details]_vars

\* the synthesis failed for the final text of a run of two stages, and the
\* logger was called afterwards
C28_Witness ==
    /\ pc = "done"
    /\ Len(pipeline_run_history) = 2
    /\ audio_calls = <<pipeline_run_history[2].output_text>>
    /\ \E k \in 1..Len(printed) :
          printed[k] = "[Audio] Error during ElevenLabs operation"
    /\ Len(logger_calls) = 1
    /\ log_status # <<>>

\* no non-empty input text is available: the argument is empty, or there is
\* no argument and voice capture is unavailable or fails
NoInputAvailable ==
    \/ args_input_text = <<<<>>>>
    \/ /\ args_input_text = <<>>
       /\ voice_input \in {"unavailable", "no_recording", "no_transcript"}

\* C29: if execution_order is empty, the agents list is empty, or no
\* non-empty input text is available, main() returns before the run starts:
\* no agent is resolved or invoked, the history stays empty, and neither
\* the audio synthesis nor the logger is invoked.
C29_NoRunWithoutInput ==
    (execution_order = <<>> \/ DOMAIN agents_map = {} \/ NoInputAvailable) =>
        /\ run_state = "Idle"
        /\ pc \in {"start", "done"}
        /\ resolved = <<>> /\ calls = <<>>
        /\ pipeline_run_history = <<>>
        /\ audio_calls = <<>> /\ logger_calls = <<>>
        /\ pc = "done" => (Len(printed) = 1 /\ exit_status = ExitOnReturn)

\* main() returned because the recording could not be transcribed, for a
\* pipeline that could have run
C29_Witness ==
    /\ pc = "done"
    /\ args_input_text = <<>>
    /\ voice_input = "no_transcript"
    /\ Len(execution_order) = 2
    /\ execution_order[1] \in DOMAIN agents_map
    /\ printed = <<"Could not transcribe audio. Exiting.">>
    /\ run_state = "Idle"

\* what the loop does with an entry, from the configuration and the
\* environment alone: "skip" it, "halt" at it, or "run" it
KindOf(name) ==
    IF name \notin DOMAIN agents_map THEN "skip"
    ELSE LET path == agents_map[name].path IN
         IF path \in {None, ""} THEN "skip"
         ELSE IF \/ path \in {"agents/ConceptReframer/ConceptReframer.py",
                              "agents/MarkdownLogger/MarkdownLogger.py"}
                 \/ path = "agents/HumorAgent/HumorAgent.py" /\ gemini_api_key
         THEN "run"
         ELSE "halt"

\* the number of entries of the loop dealt with so far
Processed ==
    IF run_state = "Idle" THEN 0
    ELSE IF run_state = "Halted" THEN i
    ELSE i - 1

RECURSIVE Kept(_, _)
\* the positions up to n, in order, whose entry is of one of the kinds
Kept(n, kinds) ==
    IF n = 0 THEN <<>>
    ELSE IF KindOf(agents_to_run_in_loop[n]) \in kinds
         THEN Append(Kept(n - 1, kinds), n)
         ELSE Kept(n - 1, kinds)

\* the call arguments of a call but for the verbosity level
Behavioural(call_args) ==
    [k \in (DOMAIN call_args) \ {"verbosity_level"} |-> call_args[k]]

====
